---- MODULE Spec2Model ----
(***************************************************************************)
(* Model of baseplate/diagnostics/tracing.py: the Zipkin span observers    *)
(* (TraceSpanObserver, TraceServerSpanObserver), the batching recorder     *)
(* (BaseBatchRecorder) with its two sinks (NullRecorder, RemoteRecorder)   *)
(* and the entry point (TraceBaseplateObserver).  Threads interleave       *)
(* between statements: one step per statement that reads or writes state   *)
(* another thread can see.                                                 *)
(***************************************************************************)
EXTENDS Integers, Sequences, FiniteSets, TLC

VARIABLES
    cfg,        \* the recorder's construction parameters and its sink
    ctor,       \* position of the recorder's constructor
    session,    \* RemoteRecorder.session / .endpoint assigned
    now,        \* the last reading of the wall clock
    obs,        \* the span observers created so far (the object heap)
    calls,      \* per observer: the next statement of the hook running on it
    held,       \* direct calls of send between queue.Full and logger.error
    queue,      \* BaseBatchRecorder.span_queue: observer handles, FIFO
    workers,    \* per worker thread: position in _flush_spans and its locals
    flushed,    \* history: per call of send, how often flush_func got its span
    log,        \* the debug log written by NullRecorder.flush_func
    produced,   \* history: number of calls of send
    dropped,    \* history: number of error lines logged by send
    raised,     \* history: the last observer hook raised into its caller
    out         \* result of the last direct _serialize application

vars == <<cfg, ctor, session, now, obs, calls, held, queue, workers, flushed,
          log, produced, dropped, raised, out>>

-----------------------------------------------------------------------------
(* Bounds of the model *)

MaxClock == 1
MaxObservers == 2
MaxSends == 2
E2ENumSpanWorkers == 3

(* Construction parameters the recorder is built with; a max_queue_size    *)
(* of 0 makes queue.Queue unbounded.                                       *)
QueueSizes == {0, 1, 2}
WorkerCounts == {1, 2}
BatchSizes == {1, 2}

(* Python's None for start, end, elapsed, client_send and span.parent_id;   *)
(* a value no timestamp, identifier or difference of timestamps takes.      *)
None == -1000

ServiceName == "svc"
Hostname == "10.0.0.1"

(* ANNOTATIONS *)
CLIENT_SEND == "cs"
CLIENT_RECEIVE == "cr"
SERVER_SEND == "ss"
SERVER_RECEIVE == "sr"

(* Defaults of TraceBaseplateObserver.__init__ and NullRecorder.__init__ *)
DefaultMaxQueueSize == 50000
NullDefaultMaxSpanBatch == 100

-----------------------------------------------------------------------------
(* The spans the framework hands to the observers *)

TraceIds == {1, 2}
RootParentIds == {None, 0, 5}

Span(trace_id, name, id, parent_id) ==
    [trace_id |-> trace_id, name |-> name, id |-> id, parent_id |-> parent_id]

-----------------------------------------------------------------------------
(* Span observers *)

(* current_epoch_microseconds(): whatever the wall clock shows, t; the     *)
(* code does not compare it with an earlier reading.                       *)
current_epoch_microseconds(t) == now' = t

TraceSpanObserver_init(service_name, hostname, span, recorder) ==
    [kind |-> "client",
     service_name |-> service_name,
     hostname |-> hostname,
     recorder |-> recorder,
     span |-> span,
     start |-> None,
     end |-> None,
     elapsed |-> None,
     client_send |-> None,
     binary_annotations |-> <<>>]

(* mutant: the observer registered on the server span is a client-side one *)
TraceServerSpanObserver_init_as_client(service_name, hostname, span, recorder) ==
    TraceSpanObserver_init(service_name, hostname, span, recorder)

TraceServerSpanObserver_init(service_name, hostname, span, recorder) ==
    [TraceSpanObserver_init(service_name, hostname, span, recorder)
        EXCEPT !.kind = "server"]

(* on_start, first statement: self.start = current_epoch_microseconds().   *)
(* The client observer has a second statement, the server observer none.   *)
TraceSpanObserver_on_start(self, t) ==
    [self |-> [self EXCEPT !.start = t], next |-> "client_send"]

TraceServerSpanObserver_on_start(self, t) ==
    [self |-> [self EXCEPT !.start = t], next |-> "idle"]

(* self.client_send = self.start *)
TraceSpanObserver_on_start_client_send(self) ==
    [self EXCEPT !.client_send = self.start]

(* on_finish, first statement: self.end = current_epoch_microseconds() *)
TraceSpanObserver_on_finish_end(self, t) == [self EXCEPT !.end = t]

TraceServerSpanObserver_on_finish_end(self, t) == [self EXCEPT !.end = t]

(* on_finish, second statement: self.elapsed = self.end - self.start,      *)
(* which raises TypeError when start is None; record() comes next.         *)
(* mutant: a missing start is tolerated, elapsed stays None and record()   *)
(* is called                                                               *)
TraceSpanObserver_on_finish_elapsed_lenient(self) ==
    IF self.start = None \/ self.end = None
    THEN [self |-> self, raised |-> FALSE, next |-> "record"]
    ELSE [self |-> [self EXCEPT !.elapsed = self.end - self.start],
          raised |-> FALSE, next |-> "record"]

(* mutant: on_finish returns without calling record() *)
TraceSpanObserver_on_finish_elapsed_no_record(self) ==
    IF self.start = None \/ self.end = None
    THEN [self |-> self, raised |-> TRUE, next |-> "idle"]
    ELSE [self |-> [self EXCEPT !.elapsed = self.end - self.start],
          raised |-> FALSE, next |-> "idle"]

TraceSpanObserver_on_finish_elapsed(self) ==
    IF self.start = None \/ self.end = None
    THEN [self |-> self, raised |-> TRUE, next |-> "idle"]
    ELSE [self |-> [self EXCEPT !.elapsed = self.end - self.start],
          raised |-> FALSE, next |-> "record"]

(* mutant: elapsed computed as start - end *)
TraceServerSpanObserver_on_finish_elapsed_swapped(self) ==
    IF self.start = None \/ self.end = None
    THEN [self |-> self, raised |-> TRUE, next |-> "idle"]
    ELSE [self |-> [self EXCEPT !.elapsed = self.start - self.end],
          raised |-> FALSE, next |-> "record"]

TraceServerSpanObserver_on_finish_elapsed(self) ==
    IF self.start = None \/ self.end = None
    THEN [self |-> self, raised |-> TRUE, next |-> "idle"]
    ELSE [self |-> [self EXCEPT !.elapsed = self.end - self.start],
          raised |-> FALSE, next |-> "record"]

(* mutant: the annotation is stamped with the clock at serialization *)
create_time_annotation_now(self, annotation_type, timestamp) ==
    [endpoint |-> [serviceName |-> self.service_name, ipv4 |-> self.hostname],
     timestamp |-> now,
     value |-> annotation_type]

create_time_annotation(self, annotation_type, timestamp) ==
    [endpoint |-> [serviceName |-> self.service_name, ipv4 |-> self.hostname],
     timestamp |-> timestamp,
     value |-> annotation_type]

(* mutant: parentId never filled in *)
to_span_obj_no_parent(self, annotations, binary_annotations) ==
    [traceId |-> self.span.trace_id,
     name |-> self.span.name,
     id |-> self.span.id,
     timestamp |-> self.start,
     duration |-> self.elapsed,
     annotations |-> annotations,
     binary_annotations |-> binary_annotations,
     parentId |-> 0]

(* span['parentId'] = self.span.parent_id or 0 *)
to_span_obj(self, annotations, binary_annotations) ==
    [traceId |-> self.span.trace_id,
     name |-> self.span.name,
     id |-> self.span.id,
     timestamp |-> self.start,
     duration |-> self.elapsed,
     annotations |-> annotations,
     binary_annotations |-> binary_annotations,
     parentId |-> IF self.span.parent_id = None \/ self.span.parent_id = 0
                  THEN 0 ELSE self.span.parent_id]

(* _serialize, statement by statement: the n-th annotations.append(...),   *)
(* then return self._to_span_obj(...).  Each reads the observer as it is   *)
(* when the statement runs.                                                *)
TraceSpanObserver_serialize_annotation(self, n) ==
    IF n = 1 THEN create_time_annotation(self, CLIENT_RECEIVE, self.start)
    ELSE create_time_annotation(self, CLIENT_SEND, self.end)

TraceServerSpanObserver_serialize_annotation(self, n) ==
    IF n = 1 THEN create_time_annotation(self, SERVER_RECEIVE, self.start)
    ELSE create_time_annotation(self, SERVER_SEND, self.end)

TraceSpanObserver_serialize_return(self, annotations) ==
    to_span_obj(self, annotations, self.binary_annotations)

(* mutant: the server record passes the observer's binary annotations on *)
TraceServerSpanObserver_serialize_return_with_binary(self, annotations) ==
    to_span_obj(self, annotations, self.binary_annotations)

TraceServerSpanObserver_serialize_return(self, annotations) ==
    to_span_obj(self, annotations, <<>>)

(* _serialize run with no other thread in between *)
TraceSpanObserver_serialize(self) ==
    TraceSpanObserver_serialize_return(self,
        << TraceSpanObserver_serialize_annotation(self, 1),
           TraceSpanObserver_serialize_annotation(self, 2) >>)

TraceServerSpanObserver_serialize(self) ==
    TraceServerSpanObserver_serialize_return(self,
        << TraceServerSpanObserver_serialize_annotation(self, 1),
           TraceServerSpanObserver_serialize_annotation(self, 2) >>)

(* method dispatch on the observer's class *)
on_start(self, t) ==
    IF self.kind = "server" THEN TraceServerSpanObserver_on_start(self, t)
    ELSE TraceSpanObserver_on_start(self, t)

on_finish_end(self, t) ==
    IF self.kind = "server" THEN TraceServerSpanObserver_on_finish_end(self, t)
    ELSE TraceSpanObserver_on_finish_end(self, t)

on_finish_elapsed(self) ==
    IF self.kind = "server" THEN TraceServerSpanObserver_on_finish_elapsed(self)
    ELSE TraceSpanObserver_on_finish_elapsed(self)

serialize_annotation(self, n) ==
    IF self.kind = "server" THEN TraceServerSpanObserver_serialize_annotation(self, n)
    ELSE TraceSpanObserver_serialize_annotation(self, n)

serialize_return(self, annotations) ==
    IF self.kind = "server" THEN TraceServerSpanObserver_serialize_return(self, annotations)
    ELSE TraceSpanObserver_serialize_return(self, annotations)

serialize(self) ==
    IF self.kind = "server" THEN TraceServerSpanObserver_serialize(self)
    ELSE TraceSpanObserver_serialize(self)

-----------------------------------------------------------------------------
(* The recorder's queue: queue.Queue(maxsize); maxsize <= 0 is unbounded *)

Queue_full(q, maxsize) == maxsize > 0 /\ Len(q) >= maxsize

(* mutant: queue.Full is not caught *)
BaseBatchRecorder_send_raises(q, maxsize, item) ==
    IF Queue_full(q, maxsize)
    THEN [queue |-> q, full |-> FALSE, raised |-> TRUE]
    ELSE [queue |-> Append(q, item), full |-> FALSE, raised |-> FALSE]

(* mutant: the put ignores the capacity *)
BaseBatchRecorder_send_nocap(q, maxsize, item) ==
    [queue |-> Append(q, item), full |-> FALSE, raised |-> FALSE]

(* send, the try block: put_nowait under the queue's lock either appends   *)
(* the item or raises queue.Full, which send catches (full: the except     *)
(* clause runs next, after the lock is released).                          *)
BaseBatchRecorder_send(q, maxsize, item) ==
    IF Queue_full(q, maxsize)
    THEN [queue |-> q, full |-> TRUE, raised |-> FALSE]
    ELSE [queue |-> Append(q, item), full |-> FALSE, raised |-> FALSE]

(* send, the except clause: logger.error("Failed adding span ...") *)
BaseBatchRecorder_send_except(n) == n + 1

(* mutant: the head of the queue is read but left on the queue *)
Queue_get_nowait_peek(q) == [item |-> Head(q), queue |-> q]

(* queue.Queue.get_nowait on a queue that is not empty: under the queue's  *)
(* lock the head is removed and returned                                   *)
Queue_get_nowait(q) == [item |-> Head(q), queue |-> Tail(q)]

-----------------------------------------------------------------------------
(* The worker loop _flush_spans *)

(* mutant: off by one *)
flush_spans_loop_cond_le(spans, max_span_batch) == Len(spans) <= max_span_batch

(* mutant: the drain loop never takes a record off the queue *)
flush_spans_loop_cond_never(spans, max_span_batch) == FALSE

(* while len(spans) < self.max_span_batch *)
flush_spans_loop_cond(spans, max_span_batch) == Len(spans) < max_span_batch

(* mutant: a batch of one is not flushed *)
flush_spans_should_flush_many(spans) == Len(spans) > 1

(* mutant: the finally block flushes whatever was drained, even nothing *)
flush_spans_should_flush_always(spans) == TRUE

(* finally: if spans: flush_func(spans) else: time.sleep(...) *)
flush_spans_should_flush(spans) == spans # <<>>

(* RemoteRecorder.flush_func: one session.post; nothing is caught.  The    *)
(* call raises when the attribute session is not assigned yet, or when     *)
(* requests raises (ConnectionError, Timeout).  An HTTP error status is a  *)
(* normal return: the response is not inspected.                           *)
PostOutcomes == {"ok", "http_error", "exception"}

RemoteRecorder_flush_func(spans, session_set, outcome) ==
    [raised |-> (~session_set) \/ outcome = "exception"]

(* mutant: the batch is written last record first *)
NullRecorder_flush_line_reversed(spans, i) == spans[Len(spans) + 1 - i].rec

(* NullRecorder.flush_func: one debug line per span, in order *)
NullRecorder_flush_line(spans, i) == spans[i].rec

Workers == 1..cfg.num_workers

(* a worker's locals: the batch spans, the index of flush_func's loop, and *)
(* cur, the item get_nowait() returned with the annotations built so far   *)
(* while _serialize() runs on it                                           *)
IdleWorker == [pc |-> "drain", spans |-> <<>>, i |-> 0, cur |-> <<>>]

DeadWorker == [pc |-> "dead", spans |-> <<>>, i |-> 0, cur |-> <<>>]

(* mutant: a failed flush is caught and its batch kept for the next round *)
flush_spans_after_flush_retry(spans, failed) ==
    IF failed THEN [pc |-> "drain", spans |-> spans, i |-> 0, cur |-> <<>>]
    ELSE IdleWorker

(* The thread after flush_func(spans): an exception is not caught and      *)
(* ends it; a normal return starts the loop over with spans = []. Either   *)
(* way the batch is gone.                                                  *)
flush_spans_after_flush(spans, failed) ==
    IF failed THEN DeadWorker ELSE IdleWorker

(* The sends of a batch, counted once more each *)
CountFlush(f, spans) ==
    [k \in 1..Len(f) |-> f[k] + Cardinality({j \in 1..Len(spans) : spans[j].sid = k})]

-----------------------------------------------------------------------------
(* Construction *)

Sinks == {"null", "remote"}

Config(sink, max_queue_size, num_workers, max_span_batch) ==
    [sink |-> sink, max_queue_size |-> max_queue_size,
     num_workers |-> num_workers, max_span_batch |-> max_span_batch]

(* State when BaseBatchRecorder.__init__ has started the worker threads *)
InitWith(c) ==
    /\ cfg = c
    /\ ctor = "base"
    /\ session = FALSE
    /\ now = 0
    /\ obs = <<>>
    /\ calls = <<>>
    /\ held = 0
    /\ queue = <<>>
    /\ workers = [w \in 1..c.num_workers |-> IdleWorker]
    /\ flushed = <<>>
    /\ log = <<>>
    /\ produced = 0
    /\ dropped = 0
    /\ raised = FALSE
    /\ out = <<>>

(* the configurations with two worker threads *)
TwoWorkerConfigs == {Config("null", 2, 2, 2), Config("remote", 0, 2, 1)}

Init ==
    \E sink \in Sinks, q \in QueueSizes, n \in WorkerCounts, b \in BatchSizes :
        /\ n = 1 \/ Config(sink, q, n, b) \in TwoWorkerConfigs
        /\ InitWith(Config(sink, q, n, b))

(* mutant: the recorder is handed to the observer with session and        *)
(* endpoint never assigned                                                 *)
RecorderConstructed_unassigned ==
    /\ ctor = "base"
    /\ ctor' = "done"
    /\ session' = FALSE
    /\ UNCHANGED <<cfg, now, obs, calls, queue, workers, flushed, log, produced,
                   dropped, raised, out, held>>

(* The recorder's constructor returns (RemoteRecorder assigns session and  *)
(* endpoint after the base constructor) and TraceBaseplateObserver stores  *)
(* the recorder: only now can observers be created with it.                *)
RecorderConstructed ==
    /\ ctor = "base"
    /\ ctor' = "done"
    /\ session' = (cfg.sink = "remote")
    /\ UNCHANGED <<cfg, now, obs, calls, queue, workers, flushed, log, produced,
                   dropped, raised, out, held>>

-----------------------------------------------------------------------------
(* The calls made on the observers and on the recorder, one step per       *)
(* statement.  calls[o] is the statement the call running on observer o    *)
(* is about to execute ("idle": no call is running on it); the worker      *)
(* threads and the calls on other observers run in between.                *)

FreshId == Len(obs) + 1

(* TraceBaseplateObserver.on_server_span_created *)
ServerSpanCreated(t, n, p) ==
    /\ ctor = "done"
    /\ obs' = Append(obs, TraceServerSpanObserver_init(
                              ServiceName, Hostname, Span(t, n, FreshId, p), "recorder"))
    /\ calls' = Append(calls, "idle")
    /\ raised' = FALSE
    /\ UNCHANGED <<cfg, ctor, session, now, queue, workers, flushed, log,
                   produced, dropped, out, held>>

(* TraceServerSpanObserver.on_child_span_created; the framework's child    *)
(* span shares the trace and has the parent span's id as parent_id.        *)
ChildSpanCreated(o, n) ==
    /\ o \in 1..Len(obs)
    /\ obs[o].kind = "server"
    /\ obs' = Append(obs, TraceSpanObserver_init(
                              obs[o].service_name, obs[o].hostname,
                              Span(obs[o].span.trace_id, n, FreshId, obs[o].span.id),
                              obs[o].recorder))
    /\ calls' = Append(calls, "idle")
    /\ raised' = FALSE
    /\ UNCHANGED <<cfg, ctor, session, now, queue, workers, flushed, log,
                   produced, dropped, out, held>>

(* on_start is called: self.start = current_epoch_microseconds() *)
OnStart(o, t) ==
    /\ o \in 1..Len(obs)
    /\ calls[o] = "idle"
    /\ current_epoch_microseconds(t)
    /\ obs' = [obs EXCEPT ![o] = on_start(obs[o], t).self]
    /\ calls' = [calls EXCEPT ![o] = on_start(obs[o], t).next]
    /\ raised' = FALSE
    /\ UNCHANGED <<cfg, ctor, session, queue, workers, flushed, log,
                   produced, dropped, out, held>>

(* TraceSpanObserver.on_start, second statement; on_start returns *)
OnStartClientSend(o) ==
    /\ o \in 1..Len(obs)
    /\ calls[o] = "client_send"
    /\ obs' = [obs EXCEPT ![o] = TraceSpanObserver_on_start_client_send(obs[o])]
    /\ calls' = [calls EXCEPT ![o] = "idle"]
    /\ UNCHANGED <<cfg, ctor, session, now, queue, workers, flushed, log,
                   produced, dropped, raised, out, held>>

(* on_finish(exc_info) is called: self.end = current_epoch_microseconds() *)
FinishEnd(o, exc_info, t) ==
    /\ o \in 1..Len(obs)
    /\ calls[o] = "idle"
    /\ current_epoch_microseconds(t)
    /\ obs' = [obs EXCEPT ![o] = on_finish_end(obs[o], t)]
    /\ calls' = [calls EXCEPT ![o] = "elapsed"]
    /\ UNCHANGED <<cfg, ctor, session, queue, workers, flushed, log,
                   produced, dropped, raised, out, held>>

(* on_finish: self.elapsed = self.end - self.start; a TypeError ends the   *)
(* call here                                                               *)
FinishElapsed(o) ==
    /\ o \in 1..Len(obs)
    /\ calls[o] = "elapsed"
    /\ LET r == on_finish_elapsed(obs[o])
       IN  /\ obs' = [obs EXCEPT ![o] = r.self]
           /\ calls' = [calls EXCEPT ![o] = r.next]
           /\ raised' = r.raised
    /\ UNCHANGED <<cfg, ctor, session, now, queue, workers, flushed, log,
                   produced, dropped, out, held>>

(* the item send is called with, and whether its put_nowait raises Full *)
SendItem(o) == [sid |-> produced + 1, o |-> o]

SendFull(o) == BaseBatchRecorder_send(queue, cfg.max_queue_size, SendItem(o)).full

(* BaseBatchRecorder.send(observer), the try block: put_nowait under the   *)
(* queue's lock.  On queue.Full the caller goes on to the except clause.   *)
Send(o) ==
    /\ o \in 1..Len(obs)
    /\ LET s == BaseBatchRecorder_send(queue, cfg.max_queue_size, SendItem(o))
       IN  /\ queue' = s.queue
           /\ raised' = s.raised
    /\ produced' = produced + 1
    /\ flushed' = Append(flushed, 0)
    /\ UNCHANGED <<cfg, ctor, session, now, obs, workers, log, dropped, out>>

(* BaseBatchRecorder.send, the except clause: the drop is logged *)
SendExcept ==
    /\ dropped' = BaseBatchRecorder_send_except(dropped)
    /\ UNCHANGED <<cfg, ctor, session, now, obs, queue, workers, flushed, log,
                   produced, raised, out>>

(* record(): self.recorder.send(self) *)
Record(o) == Send(o)

(* on_finish: self.record(); on_finish returns unless send has its except  *)
(* clause to run                                                           *)
FinishRecord(o) ==
    /\ o \in 1..Len(obs)
    /\ calls[o] = "record"
    /\ Record(o)
    /\ calls' = [calls EXCEPT ![o] = IF SendFull(o) THEN "except" ELSE "idle"]
    /\ UNCHANGED held

(* on_finish: send logs the drop; send, record and on_finish return *)
FinishSendExcept(o) ==
    /\ o \in 1..Len(obs)
    /\ calls[o] = "except"
    /\ SendExcept
    /\ calls' = [calls EXCEPT ![o] = "idle"]
    /\ UNCHANGED held

(* record() and send() are public: a call of either from outside on_finish *)
DirectRecord(o) ==
    /\ Record(o)
    /\ held' = IF SendFull(o) THEN held + 1 ELSE held
    /\ UNCHANGED calls

DirectSend(o) ==
    /\ Send(o)
    /\ held' = IF SendFull(o) THEN held + 1 ELSE held
    /\ UNCHANGED calls

(* a direct call of send (or of record) logs the drop and returns *)
DirectSendExcept ==
    /\ held > 0
    /\ SendExcept
    /\ held' = held - 1
    /\ UNCHANGED calls

(* NullRecorder.flush_func is public: a call of it from outside the worker *)
(* loop with the one record observer o serializes to writes one debug line *)
DirectFlush(o) ==
    /\ o \in 1..Len(obs)
    /\ cfg.sink = "null"
    /\ log' = Append(log, NullRecorder_flush_line(<< [rec |-> serialize(obs[o])] >>, 1))
    /\ UNCHANGED <<cfg, ctor, session, now, obs, calls, held, queue, workers,
                   flushed, produced, dropped, raised, out>>

(* The framework's own order: start() once, then finish() once *)
SpanStart(o, t) ==
    /\ o \in 1..Len(obs)
    /\ obs[o].start = None
    /\ obs[o].end = None
    /\ OnStart(o, t)

SpanFinish(o, exc_info, t) ==
    /\ o \in 1..Len(obs)
    /\ obs[o].start # None
    /\ obs[o].end = None
    /\ FinishEnd(o, exc_info, t)

-----------------------------------------------------------------------------
(* The worker threads: spans.append(self.span_queue.get_nowait()._serialize()) *)

(* get_nowait() returns the head of the queue *)
WorkerGet(w) ==
    /\ workers[w].pc = "drain"
    /\ flush_spans_loop_cond(workers[w].spans, cfg.max_span_batch)
    /\ queue # <<>>
    /\ LET item == Queue_get_nowait(queue).item
       IN  workers' = [workers EXCEPT
                          ![w].pc = "serialize",
                          ![w].cur = << [sid |-> item.sid, o |-> item.o,
                                         annotations |-> <<>>] >>]
    /\ queue' = Queue_get_nowait(queue).queue
    /\ UNCHANGED <<cfg, ctor, session, now, obs, calls, flushed, log, produced,
                   dropped, raised, out, held>>

(* _serialize: the next annotations.append(...) *)
WorkerAnnotate(w) ==
    /\ workers[w].pc = "serialize"
    /\ Len(workers[w].cur[1].annotations) < 2
    /\ LET c == workers[w].cur[1]
       IN  workers' = [workers EXCEPT ![w].cur =
              << [c EXCEPT !.annotations =
                     Append(@, serialize_annotation(obs[c.o], Len(@) + 1))] >>]
    /\ UNCHANGED <<cfg, ctor, session, now, obs, calls, queue, flushed, log,
                   produced, dropped, raised, out, held>>

(* _serialize returns self._to_span_obj(...); the record is appended to    *)
(* spans and the loop goes on                                              *)
WorkerAppend(w) ==
    /\ workers[w].pc = "serialize"
    /\ Len(workers[w].cur[1].annotations) = 2
    /\ LET c == workers[w].cur[1]
       IN  workers' = [workers EXCEPT
              ![w].pc = "drain",
              ![w].cur = <<>>,
              ![w].spans = Append(@, [sid |-> c.sid, o |-> c.o,
                                      rec |-> serialize_return(obs[c.o], c.annotations)])]
    /\ UNCHANGED <<cfg, ctor, session, now, obs, calls, queue, flushed, log,
                   produced, dropped, raised, out, held>>

(* The inner loop ends (batch full, or queue.Empty): flush or sleep *)
WorkerDrained(w) ==
    /\ workers[w].pc = "drain"
    /\ (~flush_spans_loop_cond(workers[w].spans, cfg.max_span_batch)) \/ queue = <<>>
    /\ IF flush_spans_should_flush(workers[w].spans)
       THEN /\ workers' = [workers EXCEPT ![w].pc = "flush", ![w].i = 1]
            /\ flushed' = CountFlush(flushed, workers[w].spans)
       ELSE /\ workers' = [workers EXCEPT ![w].pc = "sleep"]
            /\ UNCHANGED flushed
    /\ UNCHANGED <<cfg, ctor, session, now, obs, calls, queue, log, produced,
                   dropped, raised, out, held>>

(* time.sleep(self.batch_wait_interval) returns *)
WorkerWake(w) ==
    /\ workers[w].pc = "sleep"
    /\ workers' = [workers EXCEPT ![w] = IdleWorker]
    /\ UNCHANGED <<cfg, ctor, session, now, obs, calls, queue, flushed, log,
                   produced, dropped, raised, out, held>>

(* NullRecorder.flush_func: the next debug line; after the last one the    *)
(* call returns and the loop starts over with spans = [].                  *)
NullFlushStep(w) ==
    /\ cfg.sink = "null"
    /\ workers[w].pc = "flush"
    /\ log' = Append(log, NullRecorder_flush_line(workers[w].spans, workers[w].i))
    /\ workers' = [workers EXCEPT ![w] =
                      IF workers[w].i = Len(workers[w].spans) THEN IdleWorker
                      ELSE [@ EXCEPT !.i = @ + 1]]
    /\ UNCHANGED <<cfg, ctor, session, now, obs, calls, queue, flushed, produced,
                   dropped, raised, out, held>>

(* RemoteRecorder.flush_func: an exception leaves _flush_spans and ends    *)
(* the thread.                                                             *)
RemoteFlush(w, outcome) ==
    /\ cfg.sink = "remote"
    /\ workers[w].pc = "flush"
    /\ workers' = [workers EXCEPT ![w] =
                      flush_spans_after_flush(workers[w].spans,
                          RemoteRecorder_flush_func(workers[w].spans, session, outcome).raised)]
    /\ UNCHANGED <<cfg, ctor, session, now, obs, calls, queue, flushed, log,
                   produced, dropped, raised, out, held>>

WorkerStep(w) ==
    \/ WorkerGet(w)
    \/ WorkerAnnotate(w)
    \/ WorkerAppend(w)
    \/ WorkerDrained(w)
    \/ WorkerWake(w)
    \/ NullFlushStep(w)
    \/ \E outcome \in PostOutcomes : RemoteFlush(w, outcome)

-----------------------------------------------------------------------------
(* Spec: the recorder under the framework's span lifecycle, with a wall    *)
(* clock that is not set back                                              *)

Clock == {0, 1}

Next ==
    \/ RecorderConstructed
    \/ Len(obs) < MaxObservers /\ ServerSpanCreated(1, "op", None)
    \/ \E o \in 1..MaxObservers : Len(obs) < MaxObservers /\ ChildSpanCreated(o, "op")
    \/ \E o \in 1..MaxObservers, t \in Clock : t >= now /\ SpanStart(o, t)
    \/ \E o \in 1..MaxObservers : OnStartClientSend(o)
    \/ \E o \in 1..MaxObservers, e \in BOOLEAN, t \in Clock :
          t >= now /\ SpanFinish(o, e, t)
    \/ \E o \in 1..MaxObservers : FinishElapsed(o)
    \/ \E o \in 1..MaxObservers : FinishRecord(o)
    \/ \E o \in 1..MaxObservers : FinishSendExcept(o)
    \/ \E w \in Workers : WorkerGet(w)
    \/ \E w \in Workers : WorkerAnnotate(w)
    \/ \E w \in Workers : WorkerAppend(w)
    \/ \E w \in Workers : WorkerDrained(w)
    \/ \E w \in Workers : WorkerWake(w)
    \/ \E w \in Workers : NullFlushStep(w)
    \/ \E w \in Workers, outcome \in PostOutcomes : RemoteFlush(w, outcome)

Spec == Init /\ [][Next]_vars

-----------------------------------------------------------------------------
(* SpecAnyOrder: the methods of one observer of a request (the server    *)
(* span's, or a child span's created before anything was called on the    *)
(* server span's) and the recorder's send() are called in any order, any  *)
(* number of times, with any clock readings, against the one worker of a  *)
(* NullRecorder whose queue holds one item                                *)

InitAnyOrder == InitWith(Config("null", 1, 1, 1))

NextAnyOrder ==
    \/ RecorderConstructed
    \/ Len(obs) = 0 /\ ServerSpanCreated(1, "op", None)
    \/ /\ Len(obs) = 1 /\ produced = 0 /\ calls[1] = "idle"
       /\ obs[1].start = None /\ obs[1].end = None
       /\ ChildSpanCreated(1, "op")
    \/ \E t \in Clock : OnStart(Len(obs), t)
    \/ OnStartClientSend(Len(obs))
    \/ \E e \in BOOLEAN, t \in Clock :
          produced < MaxSends /\ FinishEnd(Len(obs), e, t)
    \/ FinishElapsed(Len(obs))
    \/ produced < MaxSends /\ FinishRecord(Len(obs))
    \/ produced < MaxSends /\ DirectRecord(Len(obs))
    \/ produced < MaxSends /\ DirectSend(Len(obs))
    \/ FinishSendExcept(Len(obs))
    \/ DirectSendExcept
    \/ \E w \in Workers : WorkerGet(w)
    \/ \E w \in Workers : WorkerAnnotate(w)
    \/ \E w \in Workers : WorkerAppend(w)
    \/ \E w \in Workers : WorkerDrained(w)
    \/ \E w \in Workers : WorkerWake(w)
    \/ \E w \in Workers : NullFlushStep(w)

SpecAnyOrder == InitAnyOrder /\ [][NextAnyOrder]_vars

-----------------------------------------------------------------------------
(* SpecHooks: the hooks on_start and on_finish of one observer of a        *)
(* request are called in any order and any number of times (on_finish      *)
(* with no on_start before it included); the recorder is reached through   *)
(* on_finish only, and the clock readings do not decrease.  One worker of  *)
(* a NullRecorder whose queue holds one item.                              *)

NextHooks ==
    \/ RecorderConstructed
    \/ Len(obs) = 0 /\ ServerSpanCreated(1, "op", None)
    \/ /\ Len(obs) = 1 /\ produced = 0 /\ calls[1] = "idle"
       /\ obs[1].start = None /\ obs[1].end = None
       /\ ChildSpanCreated(1, "op")
    \/ \E t \in Clock : t >= now /\ OnStart(Len(obs), t)
    \/ OnStartClientSend(Len(obs))
    \/ \E e \in BOOLEAN, t \in Clock :
          produced < MaxSends /\ t >= now /\ FinishEnd(Len(obs), e, t)
    \/ FinishElapsed(Len(obs))
    \/ produced < MaxSends /\ FinishRecord(Len(obs))
    \/ FinishSendExcept(Len(obs))
    \/ \E w \in Workers : WorkerGet(w)
    \/ \E w \in Workers : WorkerAnnotate(w)
    \/ \E w \in Workers : WorkerAppend(w)
    \/ \E w \in Workers : WorkerDrained(w)
    \/ \E w \in Workers : WorkerWake(w)
    \/ \E w \in Workers : NullFlushStep(w)

SpecHooks == InitAnyOrder /\ [][NextHooks]_vars

-----------------------------------------------------------------------------
(* SpecE2E: TraceBaseplateObserver(service_name, num_span_workers =        *)
(* E2ENumSpanWorkers) with no tracing_endpoint (NullRecorder, the other    *)
(* parameters at their defaults); one inbound request with two outbound    *)
(* calls; worker threads scheduled fairly.                                 *)

E2EObservers == {1, 2, 3}

(* the clock readings of the request (the records' timing is not at stake) *)
E2EClock == {0}

(* the inbound request's <<trace_id, parent_id>>: a new trace without      *)
(* parent, or a trace continued from an upstream span                      *)
E2ERoots == {<<1, None>>, <<2, 5>>}

InitE2E ==
    InitWith(Config("null", DefaultMaxQueueSize, E2ENumSpanWorkers,
                    NullDefaultMaxSpanBatch))

NextE2E ==
    \/ RecorderConstructed
    \/ \E r \in E2ERoots :
          Len(obs) = 0 /\ ServerSpanCreated(r[1], "op", r[2])
    \/ Len(obs) \in {1, 2} /\ ChildSpanCreated(1, "op")
    \/ \E o \in E2EObservers, t \in E2EClock : SpanStart(o, t)
    \/ \E o \in E2EObservers : OnStartClientSend(o)
    \/ \E o \in E2EObservers, e \in BOOLEAN, t \in E2EClock : SpanFinish(o, e, t)
    \/ \E o \in E2EObservers : FinishElapsed(o)
    \/ \E o \in E2EObservers : FinishRecord(o)
    \/ \E w \in Workers : WorkerGet(w)
    \/ \E w \in Workers : WorkerAnnotate(w)
    \/ \E w \in Workers : WorkerAppend(w)
    \/ \E w \in Workers : WorkerDrained(w)
    \/ \E w \in Workers : WorkerWake(w)
    \/ \E w \in Workers : NullFlushStep(w)

SpecE2E ==
    /\ InitE2E
    /\ [][NextE2E]_vars
    /\ \A w \in 1..E2ENumSpanWorkers : WF_vars(WorkerStep(w))

-----------------------------------------------------------------------------
(* SpecFair: the NullRecorder with every worker thread scheduled fairly.   *)
(* The threads are daemon threads in an endless loop whose only blocking   *)
(* call is a sleep of batch_wait_interval, so each one that can take a     *)
(* step eventually does.                                                   *)

FairClock == {0}

InitFair ==
    \E q \in QueueSizes, n \in WorkerCounts, b \in BatchSizes :
        InitWith(Config("null", q, n, b))

NextFair ==
    \/ RecorderConstructed
    \/ Len(obs) < MaxObservers /\ ServerSpanCreated(1, "op", None)
    \/ \E o \in 1..MaxObservers : Len(obs) < MaxObservers /\ ChildSpanCreated(o, "op")
    \/ \E o \in 1..MaxObservers, t \in FairClock : SpanStart(o, t)
    \/ \E o \in 1..MaxObservers : OnStartClientSend(o)
    \/ \E o \in 1..MaxObservers, e \in BOOLEAN, t \in FairClock : SpanFinish(o, e, t)
    \/ \E o \in 1..MaxObservers : FinishElapsed(o)
    \/ \E o \in 1..MaxObservers : FinishRecord(o)
    \/ \E o \in 1..MaxObservers : FinishSendExcept(o)
    \/ \E w \in Workers : WorkerGet(w)
    \/ \E w \in Workers : WorkerAnnotate(w)
    \/ \E w \in Workers : WorkerAppend(w)
    \/ \E w \in Workers : WorkerDrained(w)
    \/ \E w \in Workers : WorkerWake(w)
    \/ \E w \in Workers : NullFlushStep(w)

SpecFair ==
    /\ InitFair
    /\ [][NextFair]_vars
    /\ \A w \in WorkerCounts : WF_vars(w \in Workers /\ WorkerStep(w))

-----------------------------------------------------------------------------
(* SpecSerialize: _serialize, and NullRecorder.flush_func with the record  *)
(* it gives, called directly on an observer in any state                   *)

Timestamps == {None} \cup (0..MaxClock)

BinaryAnnotations == {<<>>, <<"tag">>}

InitSerialize ==
    /\ cfg = Config("null", 0, 1, 1)
    /\ ctor = "done"
    /\ session = FALSE
    /\ now = 0
    /\ \E kind \in {"client", "server"}, t \in TraceIds, p \in RootParentIds,
          st \in Timestamps, en \in Timestamps, el \in Timestamps,
          ba \in BinaryAnnotations :
          obs = << [TraceSpanObserver_init(ServiceName, Hostname,
                                           Span(t, "op", 1, p), "recorder")
                      EXCEPT !.kind = kind, !.start = st, !.end = en,
                             !.elapsed = el, !.binary_annotations = ba] >>
    /\ calls = << "idle" >>
    /\ held = 0
    /\ queue = <<>>
    /\ workers = [w \in 1..1 |-> IdleWorker]
    /\ flushed = <<>>
    /\ log = <<>>
    /\ produced = 0
    /\ dropped = 0
    /\ raised = FALSE
    /\ out = <<>>

SerializeApply(o) ==
    /\ o \in 1..Len(obs)
    /\ out' = << serialize(obs[o]) >>
    /\ UNCHANGED <<cfg, ctor, session, now, obs, calls, queue, workers, flushed,
                   log, produced, dropped, raised, held>>

NextSerialize ==
    \/ \E o \in {1} : SerializeApply(o)
    \/ \E o \in {1} : Len(log) < MaxSends /\ DirectFlush(o)

SpecSerialize == InitSerialize /\ [][NextSerialize]_vars

-----------------------------------------------------------------------------
(* Claims *)

RECURSIVE SumTo(_, _)
SumTo(f, n) == IF n = 0 THEN 0 ELSE f[n] + SumTo(f, n - 1)

(* records passed to flush_func so far *)
Delivered == SumTo(flushed, Len(flushed))

(* a worker whose batch is still under construction *)
Building(w) == workers[w].pc \in {"drain", "serialize"}

(* records a worker holds in a batch it is still building *)
RECURSIVE InBatches(_)
InBatches(n) ==
    IF n = 0 THEN 0
    ELSE (IF Building(n) THEN Len(workers[n].spans) ELSE 0) + InBatches(n - 1)

(* observers a worker has taken from the queue and is serializing *)
RECURSIVE InFlight(_)
InFlight(n) ==
    IF n = 0 THEN 0 ELSE Len(workers[n].cur) + InFlight(n - 1)

(* the step of on_finish that calls record(), i.e. send, and the step in   *)
(* which that send logs a drop                                             *)
SendStep(o) == FinishRecord(o)

SendExceptStep(o) == FinishSendExcept(o)

(* sends whose put_nowait raised queue.Full and whose error line is not    *)
(* written yet                                                             *)
PendingDrops ==
    held + Cardinality({o \in 1..Len(obs) : calls[o] = "except"})

(* C1 as stated: send never raises, and against a queue that holds         *)
(* max_queue_size items it drops the span, logs an error and leaves the    *)
(* queue as it was.                                                        *)
C1_SendFullDropsAsStated ==
    [][\A o \in 1..MaxObservers :
          /\ SendStep(o) =>
                /\ ~raised'
                /\ Len(queue) = cfg.max_queue_size =>
                      (queue' = queue /\ calls'[o] = "except")
          /\ SendExceptStep(o) =>
                (~raised' /\ queue' = queue /\ dropped' = dropped + 1
                          /\ calls'[o] = "idle")]_vars

(* C1 amended: send never raises, and when max_queue_size >= 1 and the     *)
(* queue holds max_queue_size items, send puts nothing on the queue, goes  *)
(* on to log an error (which changes nothing else) and returns.            *)
C1_SendFullDrops ==
    [][\A o \in 1..MaxObservers :
          /\ SendStep(o) =>
                /\ ~raised'
                /\ dropped' = dropped
                /\ (cfg.max_queue_size >= 1 /\ Len(queue) = cfg.max_queue_size) =>
                      (queue' = queue /\ calls'[o] = "except")
                /\ calls'[o] = "idle" => queue' = Append(queue, SendItem(o))
          /\ SendExceptStep(o) =>
                (~raised' /\ queue' = queue /\ dropped' = dropped + 1
                          /\ calls'[o] = "idle")]_vars

C1_Witness ==
    /\ cfg.max_queue_size >= 1
    /\ Len(queue) = cfg.max_queue_size
    /\ dropped >= 1
    /\ ~raised

(* C2 as stated: the queue never holds more than max_queue_size items,     *)
(* whatever max_queue_size is.                                             *)
C2_QueueCapAsStated == Len(queue) <= cfg.max_queue_size

(* C2 amended: when max_queue_size >= 1, the queue never holds more than   *)
(* max_queue_size items (a max_queue_size of 0 makes the queue unbounded). *)
C2_QueueCap == cfg.max_queue_size >= 1 => Len(queue) <= cfg.max_queue_size

C2_Witness ==
    /\ cfg.max_queue_size = 2
    /\ cfg.num_workers = 2
    /\ Len(queue) = 2

(* C3 as stated: the spans passed to send are those dropped at send (the   *)
(* put refused; the error line written or still to be written), those in   *)
(* the queue, those in a batch under construction and those passed to      *)
(* flush_func; so with the queue and the batches empty, delivered +        *)
(* dropped = produced.                                                     *)
C3_ConservationAsStated ==
    /\ produced = dropped + PendingDrops + Len(queue)
                     + InBatches(cfg.num_workers) + Delivered
    /\ (queue = <<>> /\ InBatches(cfg.num_workers) = 0) =>
          Delivered + dropped = produced

(* C3 amended: the spans passed to send are those dropped at send (the    *)
(* put refused; the error line written or still to be written), those in   *)
(* the queue, those a worker has taken from the queue and is serializing,  *)
(* those in a batch under construction and those passed to flush_func; so  *)
(* with the queue empty, no send under way and no worker holding a span or *)
(* an unflushed batch, delivered + dropped = produced.                     *)
C3_Conservation ==
    /\ produced = dropped + PendingDrops + Len(queue) + InFlight(cfg.num_workers)
                     + InBatches(cfg.num_workers) + Delivered
    /\ (queue = <<>> /\ InFlight(cfg.num_workers) = 0
                     /\ InBatches(cfg.num_workers) = 0 /\ PendingDrops = 0) =>
          Delivered + dropped = produced

(* a worker serializes a span it took while its batch holds another one *)
C3_Witness ==
    /\ InFlight(cfg.num_workers) >= 1
    /\ InBatches(cfg.num_workers) >= 1
    /\ produced = 2

(* C4 as stated: with the remote sink a failed delivery does not reach the *)
(* worker loop: no worker thread ever ends.                                *)
C4_RemoteFailureContained ==
    cfg.sink = "remote" => \A w \in Workers : workers[w].pc # "dead"

(* C5 as stated: no observer hook raises into its caller, in whatever      *)
(* order the hooks are called.                                             *)
C5_HooksNeverRaise == ~raised

(* C6: an on_finish on an observer whose start is set goes on to record()  *)
(* and there makes exactly one call of send, with or without exc_info;     *)
(* on_start, child-span creation and the statements of on_finish before    *)
(* record() call no send.                                                  *)
C6_OneSendPerFinish ==
    [][/\ \A o \in 1..MaxObservers, t \in Clock :
             /\ FinishEnd(o, TRUE, t) <=> FinishEnd(o, FALSE, t)
             /\ FinishEnd(o, TRUE, t) => calls'[o] = "elapsed"
       /\ \A o \in 1..MaxObservers :
             /\ (FinishElapsed(o) /\ obs[o].start # None) =>
                   calls'[o] = "record" /\ ~raised'
             /\ FinishRecord(o) =>
                   produced' = produced + 1 /\ calls'[o] \in {"idle", "except"}
             /\ FinishSendExcept(o) =>
                   produced' = produced /\ calls'[o] = "idle"
       /\ (~ \E o \in 1..MaxObservers :
                FinishRecord(o) \/ DirectRecord(o) \/ DirectSend(o))
             => produced' = produced]_vars

(* a started client observer's on_finish has returned and its one item is  *)
(* in the queue                                                            *)
C6_Witness ==
    /\ produced = 1
    /\ \E o \in 1..Len(obs) :
          /\ obs[o].kind = "client"
          /\ obs[o].start # None /\ obs[o].elapsed # None
          /\ calls[o] = "idle"
          /\ queue = << [sid |-> 1, o |-> o] >>

(* C7: a batch passed to flush_func holds at least 1 and at most           *)
(* max_span_batch records, and a worker whose drain ends with some records *)
(* (fewer than max_span_batch included) flushes them at once.              *)
C7_BatchSize ==
    [][\A w \in Workers :
          /\ workers'[w].pc = "flush" =>
                (Len(workers'[w].spans) >= 1 /\ Len(workers'[w].spans) <= cfg.max_span_batch)
          /\ (WorkerDrained(w) /\ workers[w].spans # <<>>) =>
                (workers'[w].pc = "flush" /\ workers'[w].spans = workers[w].spans)]_vars

C7_Witness ==
    \E w \in Workers :
        /\ workers[w].pc = "flush"
        /\ cfg.max_span_batch = 2
        /\ Len(workers[w].spans) = 1

IsServerRecord(r) ==
    Len(r.annotations) = 2 /\ r.annotations[1].value = SERVER_RECEIVE
                           /\ r.annotations[2].value = SERVER_SEND

IsClientRecord(r) ==
    Len(r.annotations) = 2 /\ r.annotations[1].value \in {CLIENT_SEND, CLIENT_RECEIVE}
                           /\ r.annotations[2].value \in {CLIENT_SEND, CLIENT_RECEIVE}

(* the three spans' on_finish calls have returned *)
E2EAllFinished ==
    /\ Len(obs) = 3
    /\ \A o \in 1..3 : obs[o].end # None /\ calls[o] = "idle"

E2ELogShown ==
    /\ Len(log) = 3
    /\ Cardinality({i \in 1..3 : IsServerRecord(log[i])}) = 1
    /\ Cardinality({i \in 1..3 : IsClientRecord(log[i])}) = 2
    /\ \A i \in 1..3 : log[i].traceId = obs[1].span.trace_id
    /\ \A o \in 1..3 : \E i \in 1..3 :
          /\ log[i].id = obs[o].span.id
          /\ (obs[o].kind = "server") = IsServerRecord(log[i])
          /\ obs[o].kind = "client" => log[i].parentId = obs[o].span.parent_id
          /\ obs[o].span.parent_id = None => log[i].parentId = 0

(* C8: with the log sink and the default parameters, once the server span  *)
(* and its two child spans have finished, the log eventually holds, and    *)
(* keeps holding, exactly 3 records: 1 server and 2 client records, all    *)
(* with the trace's traceId, each client record with its span's parent id  *)
(* as parentId, and parentId 0 for a span without parent.                  *)
C8_EndToEndLog == E2EAllFinished ~> []E2ELogShown

C8_Witness ==
    /\ E2EAllFinished
    /\ E2ELogShown
    /\ obs[1].span.parent_id = None

(* C9 as stated: a client record carries (client-send at start,           *)
(* client-receive at end), in this order.                                  *)
C9_ClientAnnotations ==
    (out # <<>> /\ obs[1].kind = "client") =>
        /\ Len(out[1].annotations) = 2
        /\ out[1].annotations[1].value = CLIENT_SEND
        /\ out[1].annotations[1].timestamp = obs[1].start
        /\ out[1].annotations[2].value = CLIENT_RECEIVE
        /\ out[1].annotations[2].timestamp = obs[1].end

(* C10: a server record carries (server-receive at start, server-send at   *)
(* end), in this order, and no binary annotations, whatever the observer's *)
(* binary_annotations are.                                                 *)
C10_ServerRecord ==
    (out # <<>> /\ obs[1].kind = "server") =>
        /\ Len(out[1].annotations) = 2
        /\ out[1].annotations[1].value = SERVER_RECEIVE
        /\ out[1].annotations[1].timestamp = obs[1].start
        /\ out[1].annotations[2].value = SERVER_SEND
        /\ out[1].annotations[2].timestamp = obs[1].end
        /\ out[1].binary_annotations = <<>>

C10_Witness ==
    /\ out # <<>>
    /\ obs[1].kind = "server"
    /\ obs[1].binary_annotations # <<>>
    /\ obs[1].start = 0
    /\ obs[1].end = 1

(* observers whose on_finish has called send *)
Finished(kind) ==
    {o \in 1..Len(obs) : obs[o].kind = kind /\ obs[o].end # None
                            /\ calls[o] \in {"idle", "except"}}

(* C11: on_server_span_created adds exactly one server observer, on the    *)
(* root span; on_child_span_created adds exactly one client observer, on   *)
(* the child span, with the parent's service name, hostname and recorder;  *)
(* each finish hands that one observer to the shared recorder, so the      *)
(* recorder has been handed one item per finished server span and one per  *)
(* finished child span.                                                    *)
C11_OneObserverPerSpan ==
    [][/\ ServerSpanCreated(1, "op", None) =>
             /\ Len(obs') = Len(obs) + 1
             /\ SubSeq(obs', 1, Len(obs)) = obs
             /\ obs'[Len(obs')].kind = "server"
             /\ obs'[Len(obs')].span = Span(1, "op", Len(obs) + 1, None)
       /\ \A p \in 1..MaxObservers : ChildSpanCreated(p, "op") =>
             /\ Len(obs') = Len(obs) + 1
             /\ SubSeq(obs', 1, Len(obs)) = obs
             /\ obs'[Len(obs')].kind = "client"
             /\ obs'[Len(obs')].span.parent_id = obs[p].span.id
             /\ obs'[Len(obs')].span.trace_id = obs[p].span.trace_id
             /\ obs'[Len(obs')].service_name = obs[p].service_name
             /\ obs'[Len(obs')].hostname = obs[p].hostname
             /\ obs'[Len(obs')].recorder = obs[p].recorder
       /\ \A o \in 1..MaxObservers : FinishRecord(o) =>
             /\ produced' = produced + 1
             /\ \/ queue' = Append(queue, [sid |-> produced + 1, o |-> o])
                \/ queue' = queue /\ calls'[o] = "except"
       /\ produced' = Cardinality(Finished("server")') + Cardinality(Finished("client")')
      ]_vars

C11_Witness ==
    /\ Cardinality(Finished("server")) = 1
    /\ Cardinality(Finished("client")) = 1
    /\ produced = 2

(* the sends held by the queue, by the workers that serialize one, and by  *)
(* the batches still under construction                                    *)
QueuedSids == {queue[j].sid : j \in 1..Len(queue)}

InFlightSids ==
    {workers[w].cur[1].sid : w \in {v \in Workers : workers[v].cur # <<>>}}

DrainingSids ==
    UNION {{workers[w].spans[j].sid : j \in 1..Len(workers[w].spans)} :
           w \in {v \in Workers : Building(v)}}

BatchSids(w) == {workers[w].spans[j].sid : j \in 1..Len(workers[w].spans)}

(* C12: when the remote flush_func fails on a batch (an exception, or an   *)
(* error answer of the collector), no record of the batch is on the queue  *)
(* or kept by any worker afterwards, and no send is ever passed to         *)
(* flush_func a second time.                                               *)
C12_FailedBatchLost ==
    [][/\ \A w \in Workers, outcome \in {"exception", "http_error"} :
             RemoteFlush(w, outcome) =>
                 /\ BatchSids(w) # {}
                 /\ BatchSids(w) \cap (QueuedSids \cup InFlightSids)' = {}
                 /\ \A v \in Workers : BatchSids(w) \cap BatchSids(v)' = {}
                 /\ queue' = queue
                 /\ \A k \in BatchSids(w) : flushed'[k] = 1
       /\ \A k \in 1..Len(flushed') :
             /\ flushed'[k] <= 1
             /\ flushed'[k] = 1 =>
                   k \notin (QueuedSids \cup InFlightSids \cup DrainingSids)'
      ]_vars

(* a worker died on its batch while a later send waits in the queue *)
C12_Witness ==
    /\ cfg.sink = "remote"
    /\ \E w \in Workers : workers[w].pc = "dead"
    /\ Delivered >= 1
    /\ queue # <<>>

(* C13: when a worker's drain ends it sleeps exactly if the drain got no   *)
(* record; with one record or more it goes straight to flush_func with     *)
(* that batch; a worker only starts to sleep, or to flush, at the end of a *)
(* drain, and flush_func never gets an empty batch.                        *)
C13_SleepIffEmpty ==
    [][\A w \in Workers :
          /\ WorkerDrained(w) =>
                /\ workers'[w].pc = "sleep" <=> workers[w].spans = <<>>
                /\ workers[w].spans # <<>> =>
                      /\ workers'[w].pc = "flush"
                      /\ workers'[w].spans = workers[w].spans
          /\ (workers'[w].pc = "sleep" /\ workers[w].pc # "sleep") =>
                workers[w].pc = "drain" /\ workers[w].spans = <<>>
          /\ (workers'[w].pc = "flush" /\ workers[w].pc # "flush") =>
                workers[w].pc = "drain" /\ workers[w].spans # <<>>
          /\ workers'[w].pc = "flush" => workers'[w].spans # <<>>
      ]_vars

(* one worker sleeps on an empty drain while the other flushes a batch *)
C13_Witness ==
    /\ \E w \in Workers : workers[w].pc = "sleep" /\ workers[w].spans = <<>>
    /\ \E w \in Workers : workers[w].pc = "flush" /\ workers[w].spans # <<>>

(* send k was passed to flush_func *)
Flushed(k) == k <= Len(flushed) /\ flushed[k] >= 1

(* C14: with the log sink, one worker or more and a batch limit of one or  *)
(* more, under fair scheduling of the worker loops every send accepted     *)
(* into the queue is eventually in a batch passed to flush_func, whether   *)
(* or not any further send happens.                                        *)
C14_AcceptedEventuallyFlushed ==
    \A k \in 1..MaxObservers : (k \in QueuedSids) ~> Flushed(k)

(* an accepted send waits in the queue behind a batch being written *)
C14_Witness ==
    /\ cfg.sink = "null" /\ cfg.num_workers >= 1 /\ cfg.max_span_batch >= 1
    /\ queue # <<>>
    /\ \E w \in Workers : workers[w].pc = "flush"
    /\ \E k \in 1..Len(flushed) : Flushed(k)

(* C15: the record a worker produces for an item equals the record the     *)
(* observer serialized to when its on_finish handed it over, whatever the  *)
(* framework does to other spans meanwhile: as long as an item is in the   *)
(* queue or being serialized by a worker, the record its observer          *)
(* serializes to does not change; the annotations a worker has built so    *)
(* far are those of that record; and the record the worker appends to its  *)
(* batch is exactly that record.                                           *)
C15_LazyEqualsEager ==
    [][/\ \A i \in 1..Len(queue), j \in 1..Len(queue') :
             queue[i].sid = queue'[j].sid =>
                 serialize(obs[queue[j].o])' = serialize(obs[queue[i].o])
       /\ \A w \in Workers :
             /\ WorkerGet(w) =>
                   serialize(obs[workers[w].cur[1].o])' = serialize(obs[Head(queue).o])
             /\ (workers[w].cur # <<>> /\ workers'[w].cur # <<>>) =>
                   /\ serialize(obs[workers[w].cur[1].o])'
                         = serialize(obs[workers[w].cur[1].o])
                   /\ workers'[w].cur[1].annotations =
                         SubSeq(serialize(obs[workers[w].cur[1].o]).annotations,
                                1, Len(workers'[w].cur[1].annotations))
             /\ WorkerAppend(w) =>
                   workers'[w].spans[Len(workers'[w].spans)].rec
                       = serialize(obs[workers[w].cur[1].o])
      ]_vars

(* the observer's timing fields agree with each other *)
TimingConsistent(self) ==
    /\ self.start # None
    /\ self.end # None
    /\ self.elapsed = self.end - self.start
    /\ self.end >= self.start

(* a record taken while the clock moved on and another span still waits *)
C15_Witness ==
    /\ now = 1
    /\ \E j \in 1..Len(queue) : obs[queue[j].o].end = 1
    /\ \E w \in Workers : \E j \in 1..Len(workers[w].spans) :
          /\ workers[w].spans[j].rec.timestamp = 0
          /\ workers[w].spans[j].rec.duration = 0
          /\ workers[w].spans[j].rec = serialize(obs[workers[w].spans[j].o])

(* C17: with a clock that is not set back, every observer in the queue,    *)
(* held by a worker or behind a record of a batch has start and end set,   *)
(* elapsed = end - start and end >= start, and every record of a batch has *)
(* timestamp = start and duration = end - start, which is >= 0.            *)
C17_TimingInvariant ==
    /\ \A j \in 1..Len(queue) : TimingConsistent(obs[queue[j].o])
    /\ \A w \in Workers :
          /\ workers[w].cur # <<>> => TimingConsistent(obs[workers[w].cur[1].o])
          /\ \A j \in 1..Len(workers[w].spans) :
                LET it == workers[w].spans[j]
                IN  /\ TimingConsistent(obs[it.o])
                    /\ it.rec.timestamp = obs[it.o].start
                    /\ it.rec.duration = obs[it.o].end - obs[it.o].start
                    /\ it.rec.duration >= 0

(* a finished span whose end is later than its start went through a batch *)
C17_Witness ==
    \E w \in Workers : \E j \in 1..Len(workers[w].spans) :
        /\ workers[w].spans[j].rec.timestamp = 0
        /\ workers[w].spans[j].rec.duration = 1
        /\ obs[workers[w].spans[j].o].end = 1

(* C18: on_finish on an observer whose on_start was never called raises    *)
(* before record(), so that nothing is handed to the recorder (no send, no *)
(* drop, elapsed left unset); and no observer in the queue and no record   *)
(* of a batch or of the log has an undefined or negative duration.         *)
C18_NoStartNoRecord ==
    [][/\ \A o \in 1..MaxObservers :
             (FinishElapsed(o) /\ obs[o].start = None) =>
                 /\ raised'
                 /\ calls'[o] = "idle"
                 /\ produced' = produced
                 /\ queue' = queue
                 /\ dropped' = dropped
                 /\ obs'[o].elapsed = None
       /\ \A j \in 1..Len(queue') :
             obs'[queue'[j].o].elapsed # None /\ obs'[queue'[j].o].elapsed >= 0
       /\ \A w \in Workers : \A j \in 1..Len(workers'[w].spans) :
             workers'[w].spans[j].rec.duration # None
                 /\ workers'[w].spans[j].rec.duration >= 0
       /\ \A j \in 1..Len(log') : log'[j].duration # None /\ log'[j].duration >= 0
      ]_vars

(* on_finish was called on an observer never started: the call raised     *)
(* after setting end, and nothing has been handed to the recorder          *)
C18_Witness ==
    /\ raised
    /\ produced = 0
    /\ queue = <<>>
    /\ \E o \in 1..Len(obs) :
          /\ obs[o].start = None
          /\ obs[o].end # None
          /\ obs[o].elapsed = None
          /\ calls[o] = "idle"

(* the records of a batch written so far stand in the log in batch order,  *)
(* the last of them at position p or before                                *)
RECURSIVE WrittenInOrder(_, _, _)
WrittenInOrder(spans, n, p) ==
    IF n = 0 THEN TRUE
    ELSE \E q \in 1..p :
            /\ log[q] = spans[n].rec
            /\ WrittenInOrder(spans, n - 1, q - 1)

(* C16: a batch holds its records in the order the worker dequeued them,   *)
(* which is the order in which send accepted them (a later send never      *)
(* stands before an earlier one); the log sink writes the records of a     *)
(* batch one by one in that order.                                         *)
C16_BatchOrder ==
    [][\A w \in Workers :
          /\ \A i, j \in 1..Len(workers'[w].spans) :
                i < j => workers'[w].spans[i].sid < workers'[w].spans[j].sid
          /\ WorkerGet(w) =>
                /\ workers'[w].cur[1].sid = Head(queue).sid
                /\ workers'[w].spans = workers[w].spans
                /\ \A j \in 1..Len(workers[w].spans) :
                      workers[w].spans[j].sid < Head(queue).sid
                /\ \A j \in 1..Len(queue') : Head(queue).sid < queue'[j].sid
          /\ WorkerAppend(w) =>
                /\ workers'[w].spans =
                      Append(workers[w].spans, workers'[w].spans[Len(workers'[w].spans)])
                /\ workers'[w].spans[Len(workers'[w].spans)].sid = workers[w].cur[1].sid
          /\ NullFlushStep(w) =>
                /\ log' = Append(log, workers[w].spans[workers[w].i].rec)
                /\ WrittenInOrder(workers[w].spans, workers[w].i - 1, Len(log))
      ]_vars

(* the second record of a batch of two is about to be written *)
C16_Witness ==
    /\ cfg.sink = "null"
    /\ \E w \in Workers :
          /\ workers[w].pc = "flush"
          /\ Len(workers[w].spans) = 2
          /\ workers[w].i = 2
          /\ workers[w].spans[1].rec # workers[w].spans[2].rec

(* the places that hold send k: positions of the queue, workers that       *)
(* serialize it, and positions of the batches                              *)
QueuePlaces(k) == {j \in 1..Len(queue) : queue[j].sid = k}

InFlightPlaces(k) ==
    {w \in Workers : workers[w].cur # <<>> /\ workers[w].cur[1].sid = k}

BatchPlaces(k) ==
    UNION {{<<w, j>> : j \in {i \in 1..Len(workers[w].spans) :
                                 workers[w].spans[i].sid = k}} : w \in Workers}

(* C19: with producers and several workers interleaved in any way, a send  *)
(* is at any time either in the queue once, or held by one worker once     *)
(* (being serialized, or in its batch), or nowhere; while in the queue or  *)
(* with a worker that still builds its batch it has not been passed to     *)
(* flush_func, and it is passed at most once.                              *)
C19_DequeuedOnce ==
    \A k \in 1..Len(flushed) :
        /\ Cardinality(QueuePlaces(k)) + Cardinality(InFlightPlaces(k))
              + Cardinality(BatchPlaces(k)) <= 1
        /\ flushed[k] <= 1
        /\ k \in (QueuedSids \cup InFlightSids \cup DrainingSids) => flushed[k] = 0
        /\ (\E w \in Workers : workers[w].pc = "flush" /\ k \in BatchSids(w))
              => flushed[k] = 1

(* two workers each hold one of two accepted sends *)
C19_Witness ==
    /\ cfg.num_workers = 2
    /\ workers[1].cur # <<>>
    /\ workers[2].spans # <<>>
    /\ produced = 2

(* C20: the worker threads run from the base constructor on, before        *)
(* RemoteRecorder.__init__ assigns session and endpoint; until the         *)
(* constructor has returned nothing can be sent, so the queue and every    *)
(* batch are empty, and whenever a worker is in RemoteRecorder.flush_func  *)
(* session and endpoint are assigned.                                      *)
C20_FlushAfterConstruction ==
    /\ ctor = "base" =>
          /\ ~session
          /\ queue = <<>>
          /\ produced = 0
          /\ \A w \in Workers :
                /\ workers[w].spans = <<>>
                /\ workers[w].cur = <<>>
                /\ workers[w].pc \in {"drain", "sleep"}
    /\ cfg.sink = "remote" =>
          \A w \in Workers : workers[w].pc \in {"flush", "dead"} => session

(* a worker is in RemoteRecorder.flush_func with a batch *)
C20_Witness ==
    /\ cfg.sink = "remote"
    /\ session
    /\ \E w \in Workers : workers[w].pc = "flush" /\ workers[w].spans # <<>>
    /\ \E w \in Workers : workers[w].pc = "sleep"

====
